---------------------------- MODULE Spec2Model ----------------------------
(***************************************************************************)
(* State-machine model of train_main_model (train.py): the epoch / batch   *)
(* loop, the loss aggregation, the cadence decisions (log, sample,         *)
(* validate, checkpoint), the validation sub-loop and the epoch end.       *)
(*                                                                         *)
(* Numbers are integers; an averaged validation loss is an exact fraction  *)
(* <<num, den>> (floating-point rounding is not modelled).  A Python       *)
(* exception ends the run: pc = "error" with the exception's name and the  *)
(* source line that raised it.  The collaborators that are not part of     *)
(* train.py (the model's forward pass, the loaders) are opaque: a forward  *)
(* pass returns a loss breakdown, a loader has a length and yields that    *)
(* many batches.                                                           *)
(*                                                                         *)
(* A run starts in train(opts) (the dispatch on model_name) and sets up     *)
(* lines 26-57 in one step.  Files outlive the process: a finished or       *)
(* failed run may be started again with continue_training set on one of     *)
(* the checkpoints it wrote.  convert_mp (data_utils/convert_ttf_to_sfd.py) *)
(* is a second, independent program with its own specification.            *)
(***************************************************************************)
EXTENDS Integers, Sequences, FiniteSets

(* ------------------------------ bounds --------------------------------- *)

\* largest cadence frequency (freq_log, freq_sample, freq_val, freq_ckpt)
MaxFreq == 2
\* largest threshold_ckpt
MaxThreshold == 1
\* largest init_epoch
MaxInitEpoch == 1
\* largest n_epochs
MaxEpochs == 2
\* largest len(train_loader)
MaxTrainLen == 3
\* largest len(val_loader)
MaxValLen == 2
\* largest loss term produced by a forward pass (aggregation check)
MaxTerm == 2
\* largest loss weight (aggregation check)
MaxWeight == 2
\* largest number of font files found by convert_mp
MaxFonts == 4
\* largest mp.cpu_count()
MaxCpus == 4

(* ------------------------------ values --------------------------------- *)

\* a local variable of train_main_model that has not been assigned yet
Unbound == -1

\* the terms validation tracks per category (keys of loss_val, line 125-126)
ValCats == {"img", "svg", "svg_para"}

ValKeys(cat) == IF cat = "img" THEN {"l1", "vggpt"}
                ELSE {"total", "cmd", "args", "aux"}

\* the categories the validation loops walk (lines 131 and 135)
ValLoopCats == {"img", "svg"}

\* a loss breakdown as returned by model_main(data): loss_dict
LossDict(l1, vggpt, kl, st, sp, sub) ==
    [img      |-> [l1 |-> l1, vggpt |-> vggpt],
     kl       |-> kl,
     svg      |-> [total |-> st, cmd |-> sub, args |-> sub, smt |-> sub,
                   aux |-> sub],
     svg_para |-> [total |-> sp, cmd |-> sub, args |-> sub, smt |-> sub,
                   aux |-> sub]]

\* every breakdown within the bounds
AllLossDicts ==
    {LossDict(l1, vggpt, kl, st, sp, sub) :
        l1 \in 0..MaxTerm, vggpt \in 0..MaxTerm, kl \in 0..MaxTerm,
        st \in 0..MaxTerm, sp \in 0..MaxTerm, sub \in 0..MaxTerm}

\* the breakdown of the training batches in the driver runs
TrainLossDicts == {LossDict(2, 1, 1, 2, 1, 1)}

\* the breakdown of validation batch val_idx (img.l1 = 1, 2, 3, ...)
ValLossDict(val_idx) ==
    LossDict(val_idx + 1, 1, 0, val_idx + 2, val_idx + 1, 1)

\* the loss weights of the options
Weights(w_l1, w_pt, w_kl, w_sub) ==
    [loss_w_l1 |-> w_l1, loss_w_pt_c |-> w_pt, kl_beta |-> w_kl,
     loss_w_cmd |-> w_sub, loss_w_args |-> w_sub, loss_w_smt |-> w_sub,
     loss_w_aux |-> w_sub]

AllWeights ==
    {Weights(a, b, c, d) : a \in 0..MaxWeight, b \in 0..MaxWeight,
                           c \in 0..MaxWeight, d \in 0..MaxWeight}

DriverWeights == {Weights(1, 1, 1, 2)}

\* the cadence options of a run
Cadences ==
    [freq_log : 0..MaxFreq, freq_sample : 0..MaxFreq, freq_val : 0..MaxFreq,
     freq_ckpt : 0..MaxFreq, threshold_ckpt : 0..MaxThreshold,
     init_epoch : 0..MaxInitEpoch, n_epochs : 0..MaxEpochs]

\* opts.model_name: the supported kind, the kind train() sends to
\* train_others, and any other string
ModelNames == {"main_model", "others", "unknown"}

\* no checkpoint file named / loaded
NoKey == <<>>

NoCkpt == [n_epoch |-> Unbound]

\* a fresh single-device run that does not report to the tracker
PlainRun ==
    [model_name |-> "main_model", multi_gpu |-> FALSE, wandb |-> FALSE,
     continue_training |-> FALSE, continue_ckpt |-> NoKey]

\* the remaining options of a first run.  model_name, multi_gpu and wandb
\* are varied over the runs that log every batch and neither sample nor
\* validate (lines 115-161 read none of the three in the model).
Runs(o, vlen) ==
    IF o.freq_log = 1 /\ o.freq_sample = 0 /\ o.freq_val = 0 /\ vlen = 0
    THEN [model_name : ModelNames, multi_gpu : BOOLEAN, wandb : BOOLEAN,
          continue_training : {FALSE}, continue_ckpt : {NoKey}]
    ELSE {PlainRun}

VARIABLES
    opts,           \* the run's options (cadence)
    run,            \* the run's options (model kind, devices, tracker, resume)
    weights,        \* the run's options (loss weights)
    train_len,      \* len(train_loader)
    val_len,        \* len(val_loader)
    pc,             \* position in train_main_model
    err,            \* the exception that ended the run: [name, line], or none
    epoch_it,       \* next value of range(init_epoch, n_epochs)
    epoch,          \* loop variable of line 60
    idx_it,         \* next index of enumerate(train_loader)
    idx,            \* loop variable of line 62
    batches_done,   \* global step (line 73)
    loss_dict,      \* breakdown of the current batch
    loss,           \* scalar optimised for the current batch
    message,        \* log record built for the current batch
    model_main,     \* [params, training, backward]
    optimizer,      \* [state, zero_grads]
    scheduler,      \* number of scheduler.step() calls
    val_it,         \* next index of enumerate(val_loader)
    loss_val,       \* validation accumulators
    logfile_train,  \* lines written to train_loss_log.txt
    logfile_val,    \* lines written to val_loss_log.txt
    files_open,     \* both log files are open
    samples,        \* sample images written: <<epoch, batches_done>>
    ckpts,          \* checkpoint files: key -> content
    saved,          \* keys of the torch.save calls, in order
    trace,          \* history: one record per processed batch
    val_started,    \* history: global steps whose validation block was entered
    published,      \* checkpoint artifacts logged to the tracker
    epochs_run,     \* history: the values the epoch loop has taken
    loaded,         \* history: the checkpoint read on line 53, if any
    prev_trace,     \* history: the trace of the run before this one
    conv            \* convert_mp: fonts, workers and their progress

vars == <<opts, weights, train_len, val_len, pc, err, epoch_it, epoch, idx_it,
          idx, batches_done, loss_dict, loss, message, model_main, optimizer,
          scheduler, val_it, loss_val, logfile_train, logfile_val, files_open,
          samples, ckpts, saved, trace, val_started, run, published,
          epochs_run, loaded, prev_trace, conv>>

config == <<opts, run, weights, train_len, val_len, conv>>

\* what only the start of a run and the epoch loop write
hist == <<loaded, prev_trace>>

NoErr == [name |-> "none", line |-> 0]

\* loss_val as initialised on lines 125-126: every term 0.0
ZeroLossVal == [cat \in ValCats |-> [key \in ValKeys(cat) |-> <<0, 1>>]]

NoLossDict == LossDict(0, 0, 0, 0, 0, 0)

NoMessage == [step |-> Unbound]

\* lines 39-49: a new ModelMain, in training mode, wrapped in DataParallel
\* when multi_gpu is set (line 40 has already required CUDA)
NewModel(multi_gpu) ==
    [params |-> 0, training |-> TRUE, backward |-> 0, wrapped |-> multi_gpu]

\* line 46: a new AdamW
NewOptimizer == [state |-> 0, zero_grads |-> 0]

\* before line 39
NoModel == NewModel(FALSE)

NoOptimizer == NewOptimizer

\* convert_mp is not running
NoConv == [pc |-> "off"]

\* the process has entered train(opts); nothing of lines 26-57 has run
InitWith(cadences, weightSet) ==
    /\ opts \in cadences
    /\ weights \in weightSet
    /\ train_len \in 0..MaxTrainLen
    /\ val_len \in 0..MaxValLen
    /\ run \in Runs(opts, val_len)
    /\ conv = NoConv
    /\ pc = "train"
    /\ err = NoErr
    /\ epoch_it = opts.init_epoch
    /\ epoch = Unbound
    /\ idx_it = 0
    /\ idx = Unbound
    /\ batches_done = Unbound
    /\ loss_dict = NoLossDict
    /\ loss = 0
    /\ message = NoMessage
    /\ model_main = NoModel
    /\ optimizer = NoOptimizer
    /\ scheduler = 0
    /\ val_it = 0
    /\ loss_val = ZeroLossVal
    /\ logfile_train = <<>>
    /\ logfile_val = <<>>
    /\ files_open = FALSE
    /\ samples = {}
    /\ ckpts = <<>>
    /\ saved = <<>>
    /\ trace = <<>>
    /\ val_started = {}
    /\ published = {}
    /\ epochs_run = <<>>
    /\ loaded = NoCkpt
    /\ prev_trace = <<>>

Init == InitWith(Cadences, DriverWeights)

(* ------------------------- pure computations --------------------------- *)

\* mutant of Loss: the displayed, externally weighted sub-terms are added
\* into the total a second time
LossDoubleWeighted(w, ld) ==
    w.loss_w_l1 * ld.img.l1 + w.loss_w_pt_c * ld.img.vggpt
    + w.kl_beta * ld.kl + ld.svg.total + ld.svg_para.total
    + w.loss_w_cmd * ld.svg.cmd + w.loss_w_args * ld.svg.args
    + w.loss_w_smt * ld.svg.smt + w.loss_w_aux * ld.svg.aux

\* line 66-67: the scalar that is optimised
Loss(w, ld) ==
    w.loss_w_l1 * ld.img.l1 + w.loss_w_pt_c * ld.img.vggpt
    + w.kl_beta * ld.kl + ld.svg.total + ld.svg_para.total

\* mutant of BatchesDone: the counter restarts with every epoch
BatchesDonePerEpoch(e, len, i) == i + 1

\* line 73
BatchesDone(e, len, i) == e * len + i + 1

\* lines 74-87: the log record of a batch
Message(w, ld, l, e, i, lr, step) ==
    [epoch |-> e, batch |-> i, loss |-> l,
     img_l1_loss |-> w.loss_w_l1 * ld.img.l1,
     img_pt_c_loss |-> w.loss_w_pt_c * ld.img.vggpt,
     svg_total_loss |-> ld.svg.total,
     svg_cmd_loss |-> w.loss_w_cmd * ld.svg.cmd,
     svg_args_loss |-> w.loss_w_args * ld.svg.args,
     svg_smooth_loss |-> w.loss_w_smt * ld.svg.smt,
     svg_aux_loss |-> w.loss_w_aux * ld.svg.aux,
     lr |-> lr, step |-> step]

\* line 88: batches_done % opts.freq_log raises when freq_log is 0
LogRaises(o) == o.freq_log = 0

LogDue(o, step) == step % o.freq_log = 0

\* line 115
SampleDue(o, step) == o.freq_sample > 0 /\ step % o.freq_sample = 0

\* line 121
ValDue(o, step) == o.freq_val > 0 /\ step % o.freq_val = 0

\* line 166: epoch % opts.freq_ckpt is evaluated first and raises when
\* freq_ckpt is 0
CkptRaises(o) == o.freq_ckpt = 0

CkptDue(o, e) == e % o.freq_ckpt = 0 /\ e >= o.threshold_ckpt

\* lines 131-133: loss_val[cat][key] += loss_dict_val[cat][key]
Accumulate(lv, ld) ==
    [cat \in ValCats |->
        IF cat \in ValLoopCats
        THEN [key \in ValKeys(cat) |->
                <<lv[cat][key][1] + ld[cat][key] * lv[cat][key][2],
                  lv[cat][key][2]>>]
        ELSE lv[cat]]

\* lines 135-137: loss_val[cat][key] /= len(val_loader)
Average(lv, n) ==
    [cat \in ValCats |->
        IF cat \in ValLoopCats
        THEN [key \in ValKeys(cat) |-> <<lv[cat][key][1], lv[cat][key][2] * n>>]
        ELSE lv[cat]]

\* lines 151-158: the validation log record
ValMsg(e, i, lv) ==
    [epoch |-> e, batch |-> i,
     img_l1 |-> lv["img"]["l1"], img_pt |-> lv["img"]["vggpt"],
     total |-> lv["svg"]["total"], cmd |-> lv["svg"]["cmd"],
     args |-> lv["svg"]["args"]]

\* lines 169/172: the file name '{epoch}_{batches_done}.ckpt'
CkptKeyEpochOnly(e, step) == <<e, 0>>

CkptKey(e, step) == <<e, step>>

\* nn.Module.state_dict(): the parameters under their names; the names of
\* a DataParallel wrapper carry the prefix "module."
StateDict(m) ==
    [prefix |-> IF m.wrapped THEN "module." ELSE "", params |-> m.params]

\* line 169: model_main.module, the model inside the DataParallel wrapper
Module(m) == [m EXCEPT !.wrapped = FALSE]

\* lines 167-172: the model whose state_dict is saved
SavedModel(m, multi_gpu) == IF multi_gpu THEN Module(m) ELSE m

\* lines 169/172: the saved dictionary
CkptContent(m, o, e, step) ==
    [model |-> StateDict(m), opt |-> o.state, n_epoch |-> e, n_iter |-> step]

\* line 54: load_state_dict (strict) accepts a dictionary whose names are
\* the model's own names
LoadAccepts(m, sd) == sd.prefix = StateDict(m).prefix

\* line 54
LoadStateDict(m, sd) == [m EXCEPT !.params = sd.params]

\* line 55
LoadOptimizer(o, ck) == [o EXCEPT !.state = ck.opt]

\* a start epoch taken from the loaded checkpoint instead of the options
StartEpochFromCkpt(o, ck) ==
    IF ck = NoCkpt THEN o.init_epoch ELSE ck.n_epoch + 1

\* line 60: the first value of range(opts.init_epoch, opts.n_epochs); the
\* checkpoint read on line 53 is not consulted
StartEpoch(o, ck) == o.init_epoch

Raise(name, line) ==
    /\ pc' = "error"
    /\ err' = [name |-> name, line |-> line]

(* ------------------------------ actions -------------------------------- *)

\* an epoch loop that passes over every other value of the range
EpochLoopSkipping ==
    /\ pc = "epoch_loop"
    /\ epoch_it < opts.n_epochs
    /\ epoch' = epoch_it
    /\ epoch_it' = epoch_it + 2
    /\ idx_it' = 0
    /\ epochs_run' = Append(epochs_run, epoch_it)
    /\ pc' = "batch_loop"
    /\ UNCHANGED <<config, hist, published,
                   err, idx, batches_done, loss_dict, loss, message,
                   model_main, optimizer, scheduler, val_it, loss_val,
                   logfile_train, logfile_val, files_open, samples, ckpts,
                   saved, trace, val_started>>

\* line 60: the next value of range(init_epoch, n_epochs)
EpochLoop ==
    /\ pc = "epoch_loop"
    /\ epoch_it < opts.n_epochs
    /\ epoch' = epoch_it
    /\ epoch_it' = epoch_it + 1
    /\ idx_it' = 0
    /\ epochs_run' = Append(epochs_run, epoch_it)
    /\ pc' = "batch_loop"
    /\ UNCHANGED <<config, hist, published,
                   err, idx, batches_done, loss_dict, loss, message,
                   model_main, optimizer, scheduler, val_it, loss_val,
                   logfile_train, logfile_val, files_open, samples, ckpts,
                   saved, trace, val_started>>

\* line 60: the range is exhausted
EpochsExhausted ==
    /\ pc = "epoch_loop"
    /\ epoch_it >= opts.n_epochs
    /\ pc' = "close"
    /\ UNCHANGED <<config, hist, published, epochs_run,
                   err, epoch_it, epoch, idx_it, idx, batches_done,
                   loss_dict, loss, message, model_main, optimizer, scheduler,
                   val_it, loss_val, logfile_train, logfile_val, files_open,
                   samples, ckpts, saved, trace, val_started>>

\* lines 62-87: one batch: forward, aggregate, optimise, count, build message
BatchStep(ld) ==
    /\ pc = "batch_loop"
    /\ idx_it < train_len
    /\ idx' = idx_it
    /\ idx_it' = idx_it + 1
    /\ loss_dict' = ld
    /\ loss' = Loss(weights, ld)
    /\ optimizer' = [optimizer EXCEPT !.zero_grads = @ + 1, !.state = @ + 1]
    /\ model_main' = [model_main EXCEPT !.backward = @ + 1, !.params = @ + 1]
    /\ batches_done' = BatchesDone(epoch, train_len, idx')
    /\ message' = Message(weights, ld, loss', epoch, idx', scheduler,
                          batches_done')
    /\ trace' = Append(trace, [epoch |-> epoch, step |-> batches_done',
                               training |-> model_main.training])
    /\ pc' = "log"
    /\ UNCHANGED <<config, hist, published, epochs_run,
                   err, epoch_it, epoch, scheduler, val_it, loss_val,
                   logfile_train, logfile_val, files_open, samples, ckpts,
                   saved, val_started>>

\* line 62: the training loader is exhausted
TrainLoaderExhausted ==
    /\ pc = "batch_loop"
    /\ idx_it >= train_len
    /\ pc' = "epoch_end"
    /\ UNCHANGED <<config, hist, published, epochs_run,
                   err, epoch_it, epoch, idx_it, idx, batches_done,
                   loss_dict, loss, message, model_main, optimizer, scheduler,
                   val_it, loss_val, logfile_train, logfile_val, files_open,
                   samples, ckpts, saved, trace, val_started>>

\* line 88 with freq_log = 0: ZeroDivisionError
LogZeroDivision ==
    /\ pc = "log"
    /\ LogRaises(opts)
    /\ Raise("ZeroDivisionError", 88)
    /\ UNCHANGED <<config, hist, published, epochs_run,
                   epoch_it, epoch, idx_it, idx, batches_done,
                   loss_dict, loss, message, model_main, optimizer, scheduler,
                   val_it, loss_val, logfile_train, logfile_val, files_open,
                   samples, ckpts, saved, trace, val_started>>

\* lines 88-90: the log decision
LogStep ==
    /\ pc = "log"
    /\ ~LogRaises(opts)
    /\ logfile_train' = IF LogDue(opts, batches_done)
                        THEN Append(logfile_train, message)
                        ELSE logfile_train
    /\ pc' = "sample"
    /\ UNCHANGED <<config, hist, published, epochs_run,
                   err, epoch_it, epoch, idx_it, idx, batches_done,
                   loss_dict, loss, message, model_main, optimizer, scheduler,
                   val_it, loss_val, logfile_val, files_open, samples, ckpts,
                   saved, trace, val_started>>

\* lines 115-119: the sample decision
SampleStep ==
    /\ pc = "sample"
    /\ samples' = IF SampleDue(opts, batches_done)
                  THEN samples \cup {<<epoch, batches_done>>}
                  ELSE samples
    /\ pc' = "val"
    /\ UNCHANGED <<config, hist, published, epochs_run,
                   err, epoch_it, epoch, idx_it, idx, batches_done,
                   loss_dict, loss, message, model_main, optimizer, scheduler,
                   val_it, loss_val, logfile_train, logfile_val, files_open,
                   ckpts, saved, trace, val_started>>

\* line 121, not due: on to the next batch
ValSkip ==
    /\ pc = "val"
    /\ ~ValDue(opts, batches_done)
    /\ pc' = "batch_loop"
    /\ UNCHANGED <<config, hist, published, epochs_run,
                   err, epoch_it, epoch, idx_it, idx, batches_done,
                   loss_dict, loss, message, model_main, optimizer, scheduler,
                   val_it, loss_val, logfile_train, logfile_val, files_open,
                   samples, ckpts, saved, trace, val_started>>

\* lines 121-126: validation is due: eval mode, fresh accumulators
ValBegin ==
    /\ pc = "val"
    /\ ValDue(opts, batches_done)
    /\ model_main' = [model_main EXCEPT !.training = FALSE]
    /\ loss_val' = ZeroLossVal
    /\ val_it' = 0
    /\ val_started' = val_started \cup {batches_done}
    /\ pc' = "val_loop"
    /\ UNCHANGED <<config, hist, published, epochs_run,
                   err, epoch_it, epoch, idx_it, idx, batches_done,
                   loss_dict, loss, message, optimizer, scheduler,
                   logfile_train, logfile_val, files_open, samples, ckpts,
                   saved, trace>>

\* mutant of ValBatch: the validation batch is optimised like a training batch
ValBatchOptimizing ==
    /\ pc = "val_loop"
    /\ val_it < val_len
    /\ loss_val' = Accumulate(loss_val, ValLossDict(val_it))
    /\ val_it' = val_it + 1
    /\ loss' = Loss(weights, ValLossDict(val_it))
    /\ optimizer' = [optimizer EXCEPT !.zero_grads = @ + 1, !.state = @ + 1]
    /\ model_main' = [model_main EXCEPT !.backward = @ + 1, !.params = @ + 1]
    /\ UNCHANGED <<config, hist, published, epochs_run,
                   pc, err, epoch_it, epoch, idx_it, idx, batches_done,
                   loss_dict, message, scheduler, logfile_train, logfile_val,
                   files_open, samples, ckpts, saved, trace, val_started>>

\* lines 128-133: one validation batch
ValBatch ==
    /\ pc = "val_loop"
    /\ val_it < val_len
    /\ loss_val' = Accumulate(loss_val, ValLossDict(val_it))
    /\ val_it' = val_it + 1
    /\ UNCHANGED <<config, hist, published, epochs_run,
                   pc, err, epoch_it, epoch, idx_it, idx, batches_done,
                   loss_dict, loss, message, model_main, optimizer, scheduler,
                   logfile_train, logfile_val, files_open, samples, ckpts,
                   saved, trace, val_started>>

\* line 137 with an empty validation loader: 0.0 / 0 is a ZeroDivisionError
ValZeroDivision ==
    /\ pc = "val_loop"
    /\ val_it >= val_len
    /\ val_len = 0
    /\ Raise("ZeroDivisionError", 137)
    /\ UNCHANGED <<config, hist, published, epochs_run,
                   epoch_it, epoch, idx_it, idx, batches_done,
                   loss_dict, loss, message, model_main, optimizer, scheduler,
                   val_it, loss_val, logfile_train, logfile_val, files_open,
                   samples, ckpts, saved, trace, val_started>>

\* lines 135-161: average, write the validation record
ValAverage ==
    /\ pc = "val_loop"
    /\ val_it >= val_len
    /\ val_len # 0
    /\ loss_val' = Average(loss_val, val_len)
    /\ logfile_val' = Append(logfile_val, ValMsg(epoch, idx, loss_val'))
    /\ pc' = "batch_loop"
    /\ UNCHANGED <<config, hist, published, epochs_run,
                   err, epoch_it, epoch, idx_it, idx, batches_done,
                   loss_dict, loss, message, model_main, optimizer, scheduler,
                   val_it, logfile_train, files_open, samples, ckpts, saved,
                   trace, val_started>>

\* an epoch end that leaves the learning rate alone
EpochEndUndecayed ==
    /\ pc = "epoch_end"
    /\ pc' = "ckpt"
    /\ UNCHANGED <<config, hist, published, epochs_run,
                   err, epoch_it, epoch, idx_it, idx, batches_done,
                   loss_dict, loss, message, model_main, optimizer, scheduler,
                   val_it, loss_val, logfile_train, logfile_val, files_open,
                   samples, ckpts, saved, trace, val_started>>

\* line 164
EpochEnd ==
    /\ pc = "epoch_end"
    /\ scheduler' = scheduler + 1
    /\ pc' = "ckpt"
    /\ UNCHANGED <<config, hist, published, epochs_run,
                   err, epoch_it, epoch, idx_it, idx, batches_done,
                   loss_dict, loss, message, model_main, optimizer, val_it,
                   loss_val, logfile_train, logfile_val, files_open, samples,
                   ckpts, saved, trace, val_started>>

\* line 166 with freq_ckpt = 0: ZeroDivisionError
CkptZeroDivision ==
    /\ pc = "ckpt"
    /\ CkptRaises(opts)
    /\ Raise("ZeroDivisionError", 166)
    /\ UNCHANGED <<config, hist, published, epochs_run,
                   epoch_it, epoch, idx_it, idx, batches_done,
                   loss_dict, loss, message, model_main, optimizer, scheduler,
                   val_it, loss_val, logfile_train, logfile_val, files_open,
                   samples, ckpts, saved, trace, val_started>>

\* line 166, not due
CkptSkip ==
    /\ pc = "ckpt"
    /\ ~CkptRaises(opts)
    /\ ~CkptDue(opts, epoch)
    /\ pc' = "epoch_loop"
    /\ UNCHANGED <<config, hist, published, epochs_run,
                   err, epoch_it, epoch, idx_it, idx, batches_done,
                   loss_dict, loss, message, model_main, optimizer, scheduler,
                   val_it, loss_val, logfile_train, logfile_val, files_open,
                   samples, ckpts, saved, trace, val_started>>

\* lines 168/171, due but no batch was ever processed: batches_done is
\* read before assignment
CkptUnbound ==
    /\ pc = "ckpt"
    /\ ~CkptRaises(opts)
    /\ CkptDue(opts, epoch)
    /\ batches_done = Unbound
    /\ Raise("UnboundLocalError", IF run.multi_gpu THEN 168 ELSE 171)
    /\ UNCHANGED <<config, hist, published, epochs_run,
                   epoch_it, epoch, idx_it, idx, batches_done,
                   loss_dict, loss, message, model_main, optimizer, scheduler,
                   val_it, loss_val, logfile_train, logfile_val, files_open,
                   samples, ckpts, saved, trace, val_started>>

\* lines 169/172: torch.save to '{epoch}_{batches_done}.ckpt'
WriteCkpt ==
    LET key == CkptKey(epoch, batches_done)
        content == CkptContent(SavedModel(model_main, run.multi_gpu),
                               optimizer, epoch, batches_done)
    IN /\ ckpts' = [k \in DOMAIN ckpts \cup {key} |->
                      IF k = key THEN content ELSE ckpts[k]]
       /\ saved' = Append(saved, key)

\* lines 166-176: the checkpoint is written and, with wandb, published
CkptSave ==
    /\ pc = "ckpt"
    /\ ~CkptRaises(opts)
    /\ CkptDue(opts, epoch)
    /\ batches_done # Unbound
    /\ WriteCkpt
    /\ published' = IF run.wandb
                    THEN published \cup {CkptKey(epoch, batches_done)}
                    ELSE published
    /\ pc' = "epoch_loop"
    /\ UNCHANGED <<config, hist, epochs_run,
                   err, epoch_it, epoch, idx_it, idx, batches_done,
                   loss_dict, loss, message, model_main, optimizer, scheduler,
                   val_it, loss_val, logfile_train, logfile_val, files_open,
                   samples, trace, val_started>>

\* lines 166-176: the checkpoint is written, then the tracker refuses the
\* artifact: run.log_artifact raises and nothing catches it
CkptPublishFails ==
    /\ pc = "ckpt"
    /\ ~CkptRaises(opts)
    /\ CkptDue(opts, epoch)
    /\ batches_done # Unbound
    /\ run.wandb
    /\ WriteCkpt
    /\ Raise("wandb.Error", 176)
    /\ UNCHANGED <<config, hist, published, epochs_run,
                   epoch_it, epoch, idx_it, idx, batches_done,
                   loss_dict, loss, message, model_main, optimizer, scheduler,
                   val_it, loss_val, logfile_train, logfile_val, files_open,
                   samples, trace, val_started>>

\* lines 178-179
Close ==
    /\ pc = "close"
    /\ files_open' = FALSE
    /\ pc' = "done"
    /\ UNCHANGED <<config, hist, published, epochs_run,
                   err, epoch_it, epoch, idx_it, idx, batches_done,
                   loss_dict, loss, message, model_main, optimizer, scheduler,
                   val_it, loss_val, logfile_train, logfile_val, samples,
                   ckpts, saved, trace, val_started>>

\* what a process start leaves of the previous process: nothing but files
FreshProcess ==
    /\ pc' = "train"
    /\ err' = NoErr
    /\ epoch_it' = opts'.init_epoch
    /\ epoch' = Unbound
    /\ idx_it' = 0
    /\ idx' = Unbound
    /\ batches_done' = Unbound
    /\ loss_dict' = NoLossDict
    /\ loss' = 0
    /\ message' = NoMessage
    /\ model_main' = NoModel
    /\ optimizer' = NoOptimizer
    /\ scheduler' = 0
    /\ val_it' = 0
    /\ loss_val' = ZeroLossVal
    /\ files_open' = FALSE
    /\ saved' = <<>>
    /\ trace' = <<>>
    /\ val_started' = {}
    /\ epochs_run' = <<>>
    /\ loaded' = NoCkpt

\* lines 190-192 and 26-57: main_model is dispatched to train_main_model,
\* which opens (and truncates) the log files, builds model, optimizer and
\* scheduler and, with continue_training, loads the checkpoint
TrainMainModel ==
    /\ pc = "train"
    /\ run.model_name = "main_model"
    /\ LET m == NewModel(run.multi_gpu)
       IN IF run.continue_training
          THEN /\ LoadAccepts(m, ckpts[run.continue_ckpt].model)
               /\ loaded' = ckpts[run.continue_ckpt]
               /\ model_main' = LoadStateDict(m, loaded'.model)
               /\ optimizer' = LoadOptimizer(NewOptimizer, loaded')
          ELSE /\ loaded' = NoCkpt
               /\ model_main' = m
               /\ optimizer' = NewOptimizer
    /\ files_open' = TRUE
    /\ logfile_train' = <<>>
    /\ logfile_val' = <<>>
    /\ scheduler' = 0
    /\ epoch_it' = StartEpoch(opts, loaded')
    /\ pc' = "epoch_loop"
    /\ UNCHANGED <<config, published, epochs_run, prev_trace, err, epoch,
                   idx_it, idx, batches_done, loss_dict, loss, message, val_it,
                   loss_val, samples, ckpts, saved, trace, val_started>>

\* line 54: the checkpoint's names are not the model's names:
\* load_state_dict raises RuntimeError (the log files are open by then)
LoadStateDictFails ==
    /\ pc = "train"
    /\ run.model_name = "main_model"
    /\ run.continue_training
    /\ ~LoadAccepts(NewModel(run.multi_gpu), ckpts[run.continue_ckpt].model)
    /\ loaded' = ckpts[run.continue_ckpt]
    /\ model_main' = NewModel(run.multi_gpu)
    /\ optimizer' = NewOptimizer
    /\ files_open' = TRUE
    /\ logfile_train' = <<>>
    /\ logfile_val' = <<>>
    /\ Raise("RuntimeError", 54)
    /\ UNCHANGED <<config, published, epochs_run, prev_trace, epoch_it, epoch,
                   idx_it, idx, batches_done, loss_dict, loss, message,
                   scheduler, val_it, loss_val, samples, ckpts, saved, trace,
                   val_started>>

\* lines 193-194: train_others is defined nowhere: NameError
TrainOthers ==
    /\ pc = "train"
    /\ run.model_name = "others"
    /\ Raise("NameError", 194)
    /\ UNCHANGED <<config, hist, published, epochs_run,
                   epoch_it, epoch, idx_it, idx, batches_done,
                   loss_dict, loss, message, model_main, optimizer, scheduler,
                   val_it, loss_val, logfile_train, logfile_val, files_open,
                   samples, ckpts, saved, trace, val_started>>

\* lines 195-196
TrainUnsupported ==
    /\ pc = "train"
    /\ run.model_name \notin {"main_model", "others"}
    /\ Raise("NotImplementedError", 196)
    /\ UNCHANGED <<config, hist, published, epochs_run,
                   epoch_it, epoch, idx_it, idx, batches_done,
                   loss_dict, loss, message, model_main, optimizer, scheduler,
                   val_it, loss_val, logfile_train, logfile_val, files_open,
                   samples, ckpts, saved, trace, val_started>>

\* the program is started again after a first run has ended or failed, with
\* continue_training set, continue_ckpt one of the checkpoint files and
\* any init_epoch; the other options are those of the first run
Resume ==
    /\ pc \in {"done", "error"}
    /\ run.model_name = "main_model"
    /\ ~run.continue_training
    /\ \E key \in DOMAIN ckpts, ie \in 0..MaxInitEpoch :
          /\ run' = [run EXCEPT !.continue_training = TRUE,
                                !.continue_ckpt = key]
          /\ opts' = [opts EXCEPT !.init_epoch = ie]
    /\ prev_trace' = trace
    /\ FreshProcess
    /\ UNCHANGED <<weights, train_len, val_len, conv, logfile_train,
                   logfile_val, samples, ckpts, published>>

Next ==
    \/ TrainMainModel
    \/ LoadStateDictFails
    \/ TrainOthers
    \/ TrainUnsupported
    \/ Resume
    \/ CkptPublishFails
    \/ EpochLoop
    \/ EpochsExhausted
    \/ \E ld \in TrainLossDicts : BatchStep(ld)
    \/ TrainLoaderExhausted
    \/ LogZeroDivision
    \/ LogStep
    \/ SampleStep
    \/ ValSkip
    \/ ValBegin
    \/ ValBatch
    \/ ValZeroDivision
    \/ ValAverage
    \/ EpochEnd
    \/ CkptZeroDivision
    \/ CkptSkip
    \/ CkptUnbound
    \/ CkptSave
    \/ Close

Spec == Init /\ [][Next]_vars

\* the runs that save no sample image: line 115 decides nothing but the
\* write of lines 116-119
NoSampling == {o \in Cadences : o.freq_sample = 0}

InitFair == InitWith(NoSampling, DriverWeights)

\* the interpreter runs the one thread of the program for as long as it has
\* a next statement
SpecFair == InitFair /\ [][Next]_vars /\ WF_vars(Next)

(* ------------------ aggregation on its own (pure function) ------------- *)

\* one fresh run of one batch with log frequency 1: every weight setting,
\* every breakdown
LossCadence ==
    [freq_log |-> 1, freq_sample |-> 0, freq_val |-> 0, freq_ckpt |-> 1,
     threshold_ckpt |-> 0, init_epoch |-> 0, n_epochs |-> 1]

InitLoss ==
    /\ InitWith({LossCadence}, AllWeights)
    /\ train_len = 1
    /\ val_len = 1

\* a batch step on any breakdown the forward pass may return
AnyBatchStep ==
    /\ pc = "batch_loop"
    /\ \E ld \in AllLossDicts : BatchStep(ld)

NextLoss ==
    \/ TrainMainModel
    \/ EpochLoop
    \/ AnyBatchStep
    \/ LogStep

SpecLoss == InitLoss /\ [][NextLoss]_vars

(* ------------------ convert_ttf_to_sfd.py: convert_mp ------------------ *)

\* every variable of the training run
training ==
    <<opts, run, weights, train_len, val_len, pc, err, epoch_it, epoch,
      idx_it, idx, batches_done, loss_dict, loss, message, model_main,
      optimizer, scheduler, val_it, loss_val, logfile_train, logfile_val,
      files_open, samples, ckpts, saved, trace, val_started, published,
      epochs_run, loaded, prev_trace>>

\* a number of fonts per worker that forgets the remainder
FontNumPerProcessFloor(font_num, process_num) == font_num \div process_num

\* line 27
FontNumPerProcess(font_num, process_num) == font_num \div process_num + 1

\* line 30: range(process_id * k, (process_id + 1) * k)
WorkerRange(process_id, k) == (process_id * k)..((process_id + 1) * k - 1)

\* the worker ids of line 84
Pids(c) == 0..(c.process_num - 1)

\* convert_mp(opts) is called: opts may or may not carry ref_nshot, the
\* split directory holds font_num files, the machine has cpu_count cores
ConvertCall ==
    /\ conv.pc = "off"
    /\ \E has_ref_nshot \in BOOLEAN, font_num \in 0..MaxFonts,
          cpu_count \in 1..MaxCpus :
          conv' = [pc |-> "called", has_ref_nshot |-> has_ref_nshot,
                   font_num |-> font_num, process_num |-> cpu_count - 1,
                   font_num_per_process |-> 0, status |-> <<>>,
                   cursor |-> <<>>, visits |-> <<>>, joined |-> 0,
                   err |-> NoErr]
    /\ UNCHANGED training

\* line 14: opts has no attribute ref_nshot (the parser of lines 93-98
\* defines none)
ConvertNoRefNshot ==
    /\ conv.pc = "called"
    /\ ~conv.has_ref_nshot
    /\ conv' = [conv EXCEPT !.pc = "error",
                            !.err = [name |-> "AttributeError", line |-> 14]]
    /\ UNCHANGED training

\* line 27 on a single-core machine: font_num // 0
ConvertNoWorker ==
    /\ conv.pc = "called"
    /\ conv.has_ref_nshot
    /\ conv.process_num = 0
    /\ conv' = [conv EXCEPT !.pc = "error",
                            !.err = [name |-> "ZeroDivisionError",
                                     line |-> 27]]
    /\ UNCHANGED training

\* lines 12-84: the inputs are read and the workers are created
ConvertSetup ==
    /\ conv.pc = "called"
    /\ conv.has_ref_nshot
    /\ conv.process_num >= 1
    /\ LET k == FontNumPerProcess(conv.font_num, conv.process_num)
       IN conv' = [conv EXCEPT
                     !.pc = "starting",
                     !.font_num_per_process = k,
                     !.status = [p \in Pids(conv) |-> "new"],
                     !.cursor = [p \in Pids(conv) |-> p * k],
                     !.visits = [i \in 0..(conv.font_num
                                           + conv.process_num * k) |-> <<>>]]
    /\ UNCHANGED training

\* lines 86-87: the next worker is started
ProcessStart ==
    /\ conv.pc = "starting"
    /\ LET new == {p \in Pids(conv) : conv.status[p] = "new"}
       IN IF new = {}
          THEN conv' = [conv EXCEPT !.pc = "joining"]
          ELSE LET p == CHOOSE q \in new : \A r \in new : q <= r
               IN conv' = [conv EXCEPT !.status[p] = "running"]
    /\ UNCHANGED training

\* lines 30-82: a worker handles the next index of its range; a font that
\* cannot be opened is reported and passed over (lines 39-44)
WorkerStep ==
    /\ conv.pc \in {"starting", "joining"}
    /\ \E p \in Pids(conv), opened \in BOOLEAN :
          LET i == conv.cursor[p]
          IN /\ conv.status[p] = "running"
             /\ i \in WorkerRange(p, conv.font_num_per_process)
             /\ i < conv.font_num
             /\ conv' = [conv EXCEPT
                           !.cursor[p] = i + 1,
                           !.visits[i] = Append(@, [pid |-> p,
                                                    opened |-> opened])]
    /\ UNCHANGED training

\* lines 30-32: the range is exhausted or the index is past the last font
WorkerExit ==
    /\ conv.pc \in {"starting", "joining"}
    /\ \E p \in Pids(conv) :
          /\ conv.status[p] = "running"
          /\ \/ conv.cursor[p] \notin WorkerRange(p, conv.font_num_per_process)
             \/ conv.cursor[p] >= conv.font_num
          /\ conv' = [conv EXCEPT !.status[p] = "exited"]
    /\ UNCHANGED training

\* lines 88-89: join returns for the next worker once it has exited
ProcessJoin ==
    /\ conv.pc = "joining"
    /\ conv.joined < conv.process_num
    /\ conv.status[conv.joined] = "exited"
    /\ conv' = [conv EXCEPT !.joined = @ + 1]
    /\ UNCHANGED training

\* line 89: the last join has returned and so does convert_mp
ConvertReturn ==
    /\ conv.pc = "joining"
    /\ conv.joined = conv.process_num
    /\ conv' = [conv EXCEPT !.pc = "returned"]
    /\ UNCHANGED training

\* the training run is not started
InitConvert ==
    /\ InitWith({LossCadence}, DriverWeights)
    /\ train_len = 0
    /\ val_len = 1

NextConvert ==
    \/ ConvertCall
    \/ ConvertNoRefNshot
    \/ ConvertNoWorker
    \/ ConvertSetup
    \/ ProcessStart
    \/ WorkerStep
    \/ WorkerExit
    \/ ProcessJoin
    \/ ConvertReturn

SpecConvert == InitConvert /\ [][NextConvert]_vars

(* ------------------------- helpers of the claims ----------------------- *)

\* the global steps of the processed batches, in order
Steps == [i \in 1..Len(trace) |-> trace[i].step]

\* the cadence decision on line n of processed batch i has been taken (or
\* the run has ended)
Passed(i, waiting) == i < Len(trace) \/ pc \notin waiting

Logged(step) == \E j \in 1..Len(logfile_train) : logfile_train[j].step = step

Sampled(step) == \E s \in samples : s[2] = step

RunEnded == pc \in {"done", "error"}

\* the epochs whose end (lines 164-176) has been executed or has raised
EndedEpochs ==
    {e \in opts.init_epoch..epoch :
        \/ e < epoch
        \/ pc \in {"epoch_loop", "close", "done"}
        \/ (pc = "error" /\ err.line \in 164..176)}

SavesOf(e) == {j \in 1..Len(saved) : saved[j][1] = e}

\* equality of exact fractions <<num, den>>
FracEq(a, b) == a[2] # 0 /\ b[2] # 0 /\ a[1] * b[2] = b[1] * a[2]

RECURSIVE SumVal(_, _, _)
\* the sum of term cat.key over validation batches 0 .. n-1
SumVal(cat, key, n) ==
    IF n = 0 THEN 0 ELSE SumVal(cat, key, n - 1) + ValLossDict(n - 1)[cat][key]

\* a validation event has completed and loss_val holds its result
ValResultReady == logfile_val # <<>> /\ pc # "val_loop"

(* ------------------------------- claims -------------------------------- *)

\* C1: a log record is emitted for a processed batch iff freq_log > 0 and
\* global_step mod freq_log = 0; with freq_log = 0 no record is emitted and
\* the log decision never stops the run.
C1_LogIffDue ==
    /\ \A i \in 1..Len(trace) :
          Passed(i, {"log"}) =>
             (Logged(trace[i].step) <=>
                 (opts.freq_log > 0 /\ trace[i].step % opts.freq_log = 0))
    /\ opts.freq_log = 0 => ~(pc = "error" /\ err.line = 88)

\* C2: for every processed batch the sample action runs iff freq_sample > 0
\* and global_step mod freq_sample = 0, and the validation action runs iff
\* freq_val > 0 and global_step mod freq_val = 0, whatever the log decision.
C2_SampleValIffDue ==
    \A i \in 1..Len(trace) :
       /\ Passed(i, {"log", "sample"}) =>
             (Sampled(trace[i].step) <=>
                 (opts.freq_sample > 0
                  /\ trace[i].step % opts.freq_sample = 0))
       /\ Passed(i, {"log", "sample", "val"}) =>
             (trace[i].step \in val_started <=>
                 (opts.freq_val > 0 /\ trace[i].step % opts.freq_val = 0))

\* C3: a checkpoint is written at the end of an epoch exactly when
\* epoch >= threshold_ckpt and epoch mod freq_ckpt = 0; at most one per
\* epoch, and none for an epoch whose end has not been reached.
C3_CkptIffDue ==
    /\ \A e \in EndedEpochs :
          (SavesOf(e) # {}) <=>
             (opts.freq_ckpt > 0 /\ e >= opts.threshold_ckpt
              /\ e % opts.freq_ckpt = 0)
    /\ \A j \in 1..Len(saved) :
          saved[j][1] \in EndedEpochs /\ Cardinality(SavesOf(saved[j][1])) = 1
    /\ {saved[j] : j \in 1..Len(saved)} \subseteq DOMAIN ckpts
    /\ ~run.continue_training =>
          DOMAIN ckpts = {saved[j] : j \in 1..Len(saved)}

\* one step of the run, as C4 constrains it
C4_Step ==
    pc' # "train" =>
       /\ Len(trace') # Len(trace) =>
             /\ batches_done' = trace'[Len(trace')].step
             /\ batches_done # Unbound => batches_done' = batches_done + 1
       /\ Len(trace') = Len(trace) => batches_done' = batches_done
       /\ (epoch' # epoch /\ epoch # Unbound) =>
             /\ epoch' = epoch + 1
             /\ idx_it = train_len

\* C4: global_step grows by exactly 1 from one processed batch to the next,
\* also across an epoch boundary, and changes at no other step; epoch grows
\* by exactly 1, and only after a full pass over the training stream.
C4_StepByOne == [][C4_Step]_vars

\* C4 witness: two consecutive batches on either side of an epoch boundary
C4_Witness ==
    \E i \in 1..(Len(trace) - 1) :
       /\ trace[i + 1].epoch = trace[i].epoch + 1
       /\ trace[i + 1].step = trace[i].step + 1
       /\ train_len >= 2

\* C5: a fresh run with log frequency 1 and validation, sample and checkpoint
\* frequencies 0 that processes three batches writes exactly the log records
\* of global steps 1, 2, 3, no validation record and no checkpoint, and
\* completes without error.
C5_EndToEnd ==
    (/\ opts.freq_log = 1 /\ opts.freq_val = 0 /\ opts.freq_sample = 0
     /\ opts.freq_ckpt = 0 /\ opts.init_epoch = 0
     /\ Len(trace) = 3 /\ RunEnded)
    => /\ [j \in 1..Len(logfile_train) |-> logfile_train[j].step] = <<1, 2, 3>>
       /\ logfile_val = <<>>
       /\ val_started = {}
       /\ saved = <<>>
       /\ pc = "done"

\* C6: the scalar optimised in a batch step is
\* loss_w_l1 * img.l1 + loss_w_pt_c * img.vggpt + kl_beta * kl + svg.total
\* + svg_para.total; the log record shows that scalar and the externally
\* weighted sub-terms, which are not part of it.
C6_LossAggregation ==
    /\ pc \in {"log", "sample"} =>
          loss = weights.loss_w_l1 * loss_dict.img.l1
                 + weights.loss_w_pt_c * loss_dict.img.vggpt
                 + weights.kl_beta * loss_dict.kl
                 + loss_dict.svg.total + loss_dict.svg_para.total
    /\ \A j \in 1..Len(logfile_train) :
          /\ logfile_train[j].loss = loss
          /\ logfile_train[j].svg_cmd_loss
                = weights.loss_w_cmd * loss_dict.svg.cmd
          /\ logfile_train[j].svg_args_loss
                = weights.loss_w_args * loss_dict.svg.args
          /\ logfile_train[j].svg_smooth_loss
                = weights.loss_w_smt * loss_dict.svg.smt
          /\ logfile_train[j].svg_aux_loss
                = weights.loss_w_aux * loss_dict.svg.aux

\* C6 witness: a logged batch whose weighted sub-terms are all non-zero
C6_Witness ==
    /\ pc = "sample"
    /\ Len(logfile_train) = 1
    /\ logfile_train[1].svg_cmd_loss > 0
    /\ logfile_train[1].svg_aux_loss > 0
    /\ weights.loss_w_l1 = 2 /\ loss_dict.img.l1 = 2
    /\ loss_dict.svg_para.total = 1
    /\ loss > 0

\* C7: after a validation event over N >= 1 batches every tracked term of
\* img, svg and svg_para is the sum of that term over the N batches divided
\* by N.
C7_ValAverages ==
    ValResultReady =>
       \A cat \in ValCats : \A key \in ValKeys(cat) :
          FracEq(loss_val[cat][key], <<SumVal(cat, key, val_len), val_len>>)

\* C8: the model is in trainable mode at every batch step, also after a
\* validation event.
C8_TrainableAtBatchStep ==
    \A i \in 1..Len(trace) : trace[i].training

\* one step of the run, as C9 constrains it
C9_Step ==
    pc \in {"val", "val_loop"} =>
       /\ epoch' = epoch /\ epoch_it' = epoch_it
       /\ idx' = idx /\ idx_it' = idx_it
       /\ batches_done' = batches_done
       /\ model_main'.params = model_main.params
       /\ model_main'.backward = model_main.backward
       /\ optimizer' = optimizer
       /\ scheduler' = scheduler
       /\ loss' = loss

\* C9: the validation block changes neither epoch, the batch index,
\* global_step, the model parameters nor the optimizer state, and performs
\* no optimizer step, gradient reset, backward pass or aggregation.
C9_ValidationFrame == [][C9_Step]_vars

\* C9 witness: a validation event over at least one batch has completed
C9_Witness ==
    /\ logfile_val # <<>>
    /\ pc = "batch_loop"
    /\ val_it = val_len /\ val_len >= 1
    /\ model_main.params >= 1

\* C10: when validation is due and the validation stream is empty the run
\* stops with an explicit configuration error, not with a division by zero.
C10_EmptyValExplicitError ==
    (val_len = 0 /\ val_started # {} /\ pc # "val_loop")
    => (pc = "error" /\ err.name = "ConfigurationError")


\* the run was started with continue_training and line 53 has read the file
Resumed == run.continue_training /\ pc # "train"

\* the epochs of this run whose line 164 has been executed
CompletedEpochs ==
    IF epochs_run = <<>> THEN 0
    ELSE Len(epochs_run) - 1
         + (IF \/ pc \in {"ckpt", "epoch_loop", "close", "done"}
               \/ (pc = "error" /\ err.line \in 166..176)
            THEN 1 ELSE 0)

\* C11: at any point of a run the number of scheduler.step applications
\* equals the number of epochs completed in this run, whatever the number of
\* batches per epoch and whichever cadence actions fired; no decay is
\* applied inside the batch loop.
C11_DecayPerEpoch == scheduler = CompletedEpochs

\* two epochs of several batches each have completed
C11_Witness ==
    /\ scheduler = 2
    /\ train_len > 1
    /\ Len(trace) = 2 * train_len

\* C12: with and without multi-device replication, a checkpoint written by
\* the save step is loaded by the continue-training step of a run of the
\* same configuration, and the parameters and optimizer state after the
\* load are the saved ones.
C12_RoundTrip ==
    Resumed =>
       /\ ~(pc = "error" /\ err.line = 54)
       /\ (pc = "epoch_loop" /\ epochs_run = <<>>) =>
             /\ model_main.params = loaded.model.params
             /\ optimizer.state = loaded.opt

\* C13: in a resumed run the epoch loop starts at opts.init_epoch and the
\* first global step is init_epoch * len(train_loader) + 1, whatever n_epoch
\* and n_iter the loaded checkpoint records.
C13_ResumeFromOptions ==
    Resumed =>
       /\ \A i \in 1..Len(epochs_run) :
             epochs_run[i] = opts.init_epoch + i - 1
       /\ trace # <<>> =>
             /\ trace[1].epoch = opts.init_epoch
             /\ trace[1].step = opts.init_epoch * train_len + 1

\* a resumed run has processed a batch although the checkpoint it loaded
\* records another epoch than the one before init_epoch
C13_Witness ==
    /\ Resumed
    /\ trace # <<>>
    /\ loaded.n_epoch + 1 # opts.init_epoch
    /\ loaded.n_iter + 1 # trace[1].step


\* C14: for every model_name other than 'main_model' ('others' included)
\* train signals the configuration error of line 196 before any batch is
\* processed, any optimizer step is taken or any checkpoint is written.
C14_UnsupportedIsConfigError ==
    (run.model_name # "main_model" /\ pc # "train") =>
       /\ pc = "error"
       /\ err.name = "NotImplementedError"
       /\ trace = <<>>
       /\ optimizer.state = 0
       /\ ckpts = <<>>

\* C15: when the run has ended, by completion or by an unhandled failure,
\* the log files opened on lines 31-32 are closed.
C15_LogsClosedOnExit == RunEnded => ~files_open

\* C16: a failure to publish the written checkpoint does not end the run.
C16_PublishFailureTolerated == ~(pc = "error" /\ err.line \in 173..176)

\* one step of the run, as C18 constrains it
C18_Step ==
    Len(saved') > Len(saved) =>
       LET key == saved'[Len(saved')]
       IN /\ Len(saved') = Len(saved) + 1
          /\ trace # <<>>
          /\ key = <<epoch, trace[Len(trace)].step>>
          /\ key[2] = (epoch + 1) * train_len
          /\ ckpts'[key].n_epoch = key[1]
          /\ ckpts'[key].n_iter = key[2]
          /\ \A j \in 1..Len(saved) : saved[j] # key
          /\ \A k \in DOMAIN ckpts \ {key} : ckpts'[k] = ckpts[k]

\* C18: every checkpoint write records n_epoch = the epoch just completed
\* and n_iter = the global step of its last batch, (epoch + 1) *
\* len(train_loader), under the key <<n_epoch, n_iter>>; no key is used
\* twice within one run and no other file is touched by the write.
C18_CkptRecord == [][C18_Step]_vars

\* two checkpoints have been written in one run, under different keys
C18_Witness ==
    /\ Len(saved) = 2
    /\ saved[1] # saved[2]
    /\ ckpts[saved[2]].n_iter = 2 * train_len

\* the (epoch, global_step) pairs of a trace
Pairs(t) == {<<t[i].epoch, t[i].step>> : i \in 1..Len(t)}

\* C19: the batches of a run resumed from a checkpoint recording
\* (n_epoch = e, n_iter = s) carry consecutive global steps; with
\* init_epoch = e + 1 the first step is s + 1 and no pair the interrupted run
\* processed up to the checkpoint is repeated, and with init_epoch = e the
\* pairs of epoch e are those the interrupted run processed, all of them
\* once the resumed run has completed.
C19_ResumeAlignment ==
    (Resumed /\ trace # <<>>) =>
       LET e == loaded.n_epoch
           s == loaded.n_iter
           upto == {p \in Pairs(prev_trace) : p[2] <= s}
           of_e == {p \in Pairs(prev_trace) : p[1] = e}
       IN /\ \A i \in 1..Len(trace) :
                /\ trace[i].step = trace[1].step + i - 1
                /\ trace[i].epoch = opts.init_epoch + ((i - 1) \div train_len)
          /\ opts.init_epoch = e + 1 =>
                /\ trace[1].step = s + 1
                /\ <<e, s>> \in upto
                /\ Pairs(trace) \cap upto = {}
          /\ opts.init_epoch = e =>
                /\ <<trace[1].epoch, trace[1].step>> \in of_e
                /\ {p \in Pairs(trace) : p[1] = e} \subseteq of_e
                /\ pc = "done" => of_e \subseteq Pairs(trace)

\* a run resumed at the epoch after the checkpoint's has completed
C19_Witness ==
    /\ Resumed
    /\ pc = "done"
    /\ trace # <<>>
    /\ opts.init_epoch = loaded.n_epoch + 1
    /\ prev_trace # <<>>


\* the values of range(init_epoch, n_epochs), in order
EpochRange(o) ==
    [i \in 1..(IF o.n_epochs > o.init_epoch
               THEN o.n_epochs - o.init_epoch ELSE 0) |-> o.init_epoch + i - 1]

\* what C17 says of a run that has reached the end of train_main_model
C17_Completed ==
    pc = "done" =>
       /\ epochs_run = EpochRange(opts)
       /\ opts.init_epoch >= opts.n_epochs => (trace = <<>> /\ saved = <<>>)

\* C17: every run of train_main_model ends (absent failures, at the end of
\* the function), and a run that ends there has processed the epochs
\* init_epoch, ..., n_epochs - 1, each once and in increasing order; with
\* init_epoch >= n_epochs it has processed no batch and written no
\* checkpoint.
C17_Terminates == [](C17_Completed) /\ ((pc = "train") ~> RunEnded)

\* a run of two epochs has completed
C17_Witness ==
    /\ pc = "done"
    /\ epochs_run = <<0, 1>>
    /\ Len(trace) = 2 * train_len
    /\ train_len > 0


\* the workers whose range holds index i
Owners(c, i) ==
    {p \in Pids(c) : i \in WorkerRange(p, c.font_num_per_process)}

\* C20: in convert_mp with process_num >= 1 the ranges [pid*k, (pid+1)*k),
\* k = font_num // process_num + 1, are pairwise disjoint and cover
\* [0, font_num); an index is handled by no worker but its owner, never
\* twice, and never when it is >= font_num; when convert_mp returns every
\* index in [0, font_num) has been handled once and every worker has exited
\* and been joined.
C20_Partition ==
    conv.pc \in {"starting", "joining", "returned"} =>
       /\ \A i \in 0..(conv.font_num - 1) : Cardinality(Owners(conv, i)) = 1
       /\ \A i \in DOMAIN conv.visits :
             /\ Len(conv.visits[i]) <= 1
             /\ i >= conv.font_num => conv.visits[i] = <<>>
             /\ \A j \in 1..Len(conv.visits[i]) :
                   conv.visits[i][j].pid \in Owners(conv, i)
       /\ conv.pc = "returned" =>
             /\ \A i \in 0..(conv.font_num - 1) : Len(conv.visits[i]) = 1
             /\ \A p \in Pids(conv) : conv.status[p] = "exited"
             /\ conv.joined = conv.process_num

\* convert_mp has returned; the last of three workers found its whole range
\* past the last font
C20_Witness ==
    /\ conv.pc = "returned"
    /\ conv.process_num = 3
    /\ conv.font_num = 4
    /\ conv.cursor[2] = 4
    /\ conv.visits[3] # <<>>

=============================================================================
